---- MODULE Spec2Model ----
(***************************************************************************)
(* The User CRUD API of api/views.py over the single User table of         *)
(* api/models.py, with the validation and rendering that UserSerializer    *)
(* (api/serializer.py, a ModelSerializer over every field of User)         *)
(* performs on request bodies and records.                                 *)
(***************************************************************************)
EXTENDS Integers, Sequences, FiniteSets, TLC

VARIABLES
    users,   \* the User table: primary key -> row [name, age]
    seq,     \* the table's auto-increment counter: the next primary key
    req,     \* the request handled last
    resp,    \* the response returned to it
    pre,     \* the User table as it was when that request arrived
    prior,   \* the exchange before it, kept when that exchange created or
             \* deleted the record the last request addresses
    inflight \* the requests being handled side by side, one per worker: how
             \* far its handler is, the instance it loaded, its response

vars == <<users, seq, req, resp, pre, prior, inflight>>

(***************************************************************************)
(* Bounds of the model.                                                    *)
(***************************************************************************)
MaxId == 2      \* primary keys handed out: 1..MaxId
MaxAge == 1     \* ages sent as JSON integers: 0..MaxAge
MaxExtra == 1   \* sample users asked for beyond the listed ones
MaxSeq == 12    \* the command runs while the key counter is at most this

(***************************************************************************)
(* Text.  A string is its text without surrounding whitespace plus the     *)
(* number of whitespace characters before and after it.                    *)
(***************************************************************************)
Str(l, x, r) == [lead |-> l, text |-> x, trail |-> r]
Plain(x) == Str(0, x, 0)
strip(s) == Plain(s.text)
len(s) == s.lead + Len(s.text) + s.trail

RECURSIVE Rep(_, _)
Rep(c, n) == IF n = 0 THEN "" ELSE c \o Rep(c, n - 1)

(***************************************************************************)
(* JSON values of request and response bodies.  Absent marks a key that    *)
(* the body does not have.                                                 *)
(***************************************************************************)
JInt(n) == [t |-> "int", v |-> n]
JFloat(w, f) == [t |-> "float", v |-> <<w, f>>]     \* the number w.f
JStr(s) == [t |-> "str", v |-> s]
JBool(b) == [t |-> "bool", v |-> b]
JNull == [t |-> "null", v |-> 0]
Absent == [t |-> "absent", v |-> 0]
None == [t |-> "none", v |-> 0]

\* Python's str() of a parsed JSON value
py_str(d) ==
    CASE d.t = "str" -> d.v
      [] d.t = "int" -> Plain(ToString(d.v))
      [] d.t = "float" -> Plain(ToString(d.v[1]) \o "." \o ToString(d.v[2]))
      [] d.t = "bool" -> Plain(IF d.v THEN "True" ELSE "False")
      [] OTHER -> Plain("None")

(***************************************************************************)
(* The User model.                                                         *)
(***************************************************************************)
max_length == 100

\* a row of the table: the two columns besides the primary key
User(name, age) == [name |-> name, age |-> age]

(***************************************************************************)
(* UserSerializer: one field per model field.  id is the primary key and   *)
(* is read-only, name is a CharField(max_length), age an IntegerField.     *)
(***************************************************************************)
Ok(value) == [ok |-> TRUE, value |-> value, code |-> "-"]
Fail(code) == [ok |-> FALSE, value |-> None, code |-> code]

\* the integers that the texts of the model can denote
Ints == 0..MaxAge

\* a conversion that falls back to zero where the text is no integer
parse_int_default(text) ==
    IF \E n \in Ints : text = ToString(n) \/ text = ToString(n) \o ".0"
    THEN Ok(CHOOSE n \in Ints : text = ToString(n) \/ text = ToString(n) \o ".0")
    ELSE Ok(0)

\* int() of a text from which a trailing ".0" has been cut
parse_int(text) ==
    IF \E n \in Ints : text = ToString(n) \/ text = ToString(n) \o ".0"
    THEN Ok(CHOOSE n \in Ints : text = ToString(n) \/ text = ToString(n) \o ".0")
    ELSE Fail("invalid")

\* a name field that lets one character too many through
name_field_off_by_one(d) ==
    CASE d = Absent -> Fail("required")
      [] d = JNull -> Fail("null")
      [] d.t = "bool" -> Fail("invalid")
      [] strip(py_str(d)).text = "" -> Fail("blank")
      [] len(strip(py_str(d))) > max_length + 1 -> Fail("max_length")
      [] OTHER -> Ok(strip(py_str(d)))

\* a name field that allows a blank name
name_field_allow_blank(d) ==
    CASE d = Absent -> Fail("required")
      [] d = JNull -> Fail("null")
      [] d.t = "bool" -> Fail("invalid")
      [] len(strip(py_str(d))) > max_length -> Fail("max_length")
      [] OTHER -> Ok(strip(py_str(d)))

\* a name field that rejects a name of max_length characters
name_field_below_max(d) ==
    CASE d = Absent -> Fail("required")
      [] d = JNull -> Fail("null")
      [] d.t = "bool" -> Fail("invalid")
      [] strip(py_str(d)).text = "" -> Fail("blank")
      [] len(strip(py_str(d))) >= max_length -> Fail("max_length")
      [] OTHER -> Ok(strip(py_str(d)))

\* the name field: required, not null, stripped, not blank, at most
\* max_length characters once stripped
name_field(d) ==
    CASE d = Absent -> Fail("required")
      [] d = JNull -> Fail("null")
      [] d.t = "bool" -> Fail("invalid")
      [] strip(py_str(d)).text = "" -> Fail("blank")
      [] len(strip(py_str(d))) > max_length -> Fail("max_length")
      [] OTHER -> Ok(strip(py_str(d)))

\* the age field: required, not null, anything whose text is an integer
age_field(d) ==
    CASE d = Absent -> Fail("required")
      [] d = JNull -> Fail("null")
      [] OTHER -> parse_int(py_str(d).text)

\* a validation that stops at the first failed field
errors_first(data) ==
    IF ~name_field(data.name).ok
    THEN [f \in {"name"} |-> name_field(data.name).code]
    ELSE IF ~age_field(data.age).ok
    THEN [f \in {"age"} |-> age_field(data.age).code]
    ELSE [f \in {} |-> "-"]

\* serializer.errors: the failed fields, each with its error code
errors(data) ==
    LET bad == {f \in {"name", "age"} :
                    IF f = "name" THEN ~name_field(data.name).ok
                                  ELSE ~age_field(data.age).ok}
    IN [f \in bad |-> IF f = "name" THEN name_field(data.name).code
                                    ELSE age_field(data.age).code]

\* serializer.is_valid()
is_valid(data) == DOMAIN errors(data) = {}

\* serializer.validated_data: the writable fields, converted
validated_data(data) ==
    User(name_field(data.name).value, age_field(data.age).value)

\* a writable id: the key the body carries, when it carries one
pk_of_body(data, pk) == IF data.id.t = "int" THEN data.id.v ELSE pk

\* the primary key of the instance a save writes: id is read-only, so it is
\* the key the table or the lookup gave, whatever id the body carries
pk_of(data, pk) == pk

\* serializer.data of a saved instance
to_representation(pk, user) ==
    [id |-> JInt(pk), name |-> JStr(user.name), age |-> JInt(user.age)]

(***************************************************************************)
(* The table's operations.                                                 *)
(***************************************************************************)
\* a key taken from the rows present: the highest key in use
next_pk_last(table, counter) ==
    IF DOMAIN table = {} THEN 1
    ELSE CHOOSE k \in DOMAIN table : \A j \in DOMAIN table : j <= k

\* the primary key given to a row created now
next_pk(table, counter) == counter

\* User.objects.create(**validated_data): a new row under a new key
objects_create(table, pk, user) ==
    [k \in DOMAIN table \cup {pk} |-> IF k = pk THEN user ELSE table[k]]

\* an UPDATE without its WHERE clause: every row takes the values
instance_save_all(table, pk, user) == [k \in DOMAIN table \cup {pk} |-> user]

\* instance.save() of a loaded instance: writes the row with its primary key
instance_save(table, pk, user) ==
    [k \in DOMAIN table \cup {pk} |-> IF k = pk THEN user ELSE table[k]]

\* a delete of the whole query set
instance_delete_all(table, pk) == [k \in {} |-> table[k]]

\* instance.delete()
instance_delete(table, pk) == [k \in DOMAIN table \ {pk} |-> table[k]]

(***************************************************************************)
(* Requests and responses.                                                 *)
(***************************************************************************)
Body(id, name, age) == [id |-> id, name |-> name, age |-> age]
NoBody == Body(Absent, Absent, Absent)
Request(view, method, user_id, data) ==
    [view |-> view, method |-> method, user_id |-> user_id, data |-> data]
Response(data, status) == [status |-> status, data |-> data]
NoExchange == [req |-> None, resp |-> None]

\* names a client sends: the empty one, one of spaces only, a one-letter
\* one, the same inside spaces, one of max_length letters, the same followed
\* by a space, one of max_length + 1 letters, null, and none
NameInputs ==
    { JStr(Plain("")), JStr(Str(1, "", 0)),
      JStr(Plain("a")), JStr(Str(1, "a", 1)),
      JStr(Plain(Rep("a", max_length))), JStr(Str(0, Rep("a", max_length), 1)),
      JStr(Plain(Rep("a", max_length + 1))),
      JNull, Absent }

\* ages a client sends: integers, an integer in a string, a float with and
\* without a fraction, a word, a boolean, null, and none
AgeInputs ==
    { JInt(n) : n \in 0..MaxAge } \cup
    { JStr(Plain(ToString(MaxAge))), JFloat(MaxAge, 0), JFloat(MaxAge, 5),
      JStr(Plain("invalid")), JBool(TRUE), JNull, Absent }

\* bodies a client sends: every name with an integer age, every age with a
\* one-letter name, both fields wrong or missing, and bodies that carry an id
Bodies ==
    { Body(Absent, n, JInt(0)) : n \in NameInputs } \cup
    { Body(Absent, JStr(Plain("a")), a) : a \in AgeInputs } \cup
    { Body(Absent, JStr(Plain("")), JStr(Plain("invalid"))), NoBody } \cup
    { Body(JInt(i), JStr(Plain("a")), JInt(MaxAge)) : i \in 1..MaxId }

\* the orders in which a query without ORDER BY can return the rows
Orders(table) ==
    { o \in [1..Cardinality(DOMAIN table) -> DOMAIN table] :
        \A i, j \in DOMAIN o : i # j => o[i] # o[j] }

\* what the exchange just finished means for a request on user_id: kept when
\* it created that record or deleted it
Before(user_id) ==
    IF \/ /\ req # None
          /\ req.view = "create_user" /\ resp.status = 201
          /\ resp.data.id = JInt(user_id)
       \/ /\ req # None
          /\ req.view = "user_detail" /\ req.method = "DELETE"
          /\ resp.status = 204 /\ req.user_id = user_id
    THEN [req |-> req, resp |-> resp]
    ELSE NoExchange

(***************************************************************************)
(* The views.                                                              *)
(***************************************************************************)
\* GET users/ answering with the first row only
get_users_first ==
    \E o \in Orders(users) :
        /\ req' = Request("get_users", "GET", 0, NoBody)
        /\ resp' = Response([i \in DOMAIN o \cap {1} |-> to_representation(o[i], users[o[i]])], 200)
        /\ pre' = users
        /\ prior' = NoExchange
        /\ UNCHANGED <<users, seq>>

\* GET users/
get_users ==
    \E o \in Orders(users) :
        /\ req' = Request("get_users", "GET", 0, NoBody)
        /\ resp' = Response([i \in DOMAIN o |-> to_representation(o[i], users[o[i]])], 200)
        /\ pre' = users
        /\ prior' = NoExchange
        /\ UNCHANGED <<users, seq>>

\* POST users/create answering with the body as it was received
create_user_echo(data) ==
    LET pk == pk_of(data, next_pk(users, seq))
    IN /\ req' = Request("create_user", "POST", 0, data)
       /\ pre' = users
       /\ prior' = NoExchange
       /\ IF is_valid(data)
          THEN /\ seq <= MaxId
               /\ users' = objects_create(users, pk, validated_data(data))
               /\ seq' = seq + 1
               /\ resp' = Response([id |-> JInt(pk), name |-> data.name,
                                    age |-> data.age], 201)
          ELSE /\ resp' = Response(errors(data), 400)
               /\ UNCHANGED <<users, seq>>

\* POST users/create
create_user(data) ==
    LET pk == pk_of(data, next_pk(users, seq))
    IN /\ req' = Request("create_user", "POST", 0, data)
       /\ pre' = users
       /\ prior' = NoExchange
       /\ IF is_valid(data)
          THEN /\ seq <= MaxId
               /\ users' = objects_create(users, pk, validated_data(data))
               /\ seq' = seq + 1
               /\ resp' = Response(to_representation(pk, validated_data(data)), 201)
          ELSE /\ resp' = Response(errors(data), 400)
               /\ UNCHANGED <<users, seq>>

\* users/<int:user_id>/ with the body of a PUT validated before the lookup
user_detail_validate_first(method, user_id, data) ==
    /\ req' = Request("user_detail", method, user_id, data)
    /\ pre' = users
    /\ prior' = Before(user_id)
    /\ UNCHANGED seq
    /\ IF method = "PUT" /\ ~is_valid(data)
       THEN /\ resp' = Response(errors(data), 400)
            /\ UNCHANGED users
       ELSE IF user_id \notin DOMAIN users
       THEN /\ resp' = Response(None, 404)
            /\ UNCHANGED users
       ELSE CASE method = "GET" ->
                    /\ resp' = Response(to_representation(user_id, users[user_id]), 200)
                    /\ UNCHANGED users
              [] method = "PUT" ->
                    /\ users' = instance_save(users, pk_of(data, user_id),
                                              validated_data(data))
                    /\ resp' = Response(to_representation(pk_of(data, user_id),
                                              validated_data(data)), 200)
              [] method = "DELETE" ->
                    /\ users' = instance_delete(users, user_id)
                    /\ resp' = Response(None, 204)

\* GET, PUT, DELETE users/<int:user_id>/
user_detail(method, user_id, data) ==
    /\ req' = Request("user_detail", method, user_id, data)
    /\ pre' = users
    /\ prior' = Before(user_id)
    /\ UNCHANGED seq
    /\ IF user_id \notin DOMAIN users
       THEN /\ resp' = Response(None, 404)
            /\ UNCHANGED users
       ELSE CASE method = "GET" ->
                    /\ resp' = Response(to_representation(user_id, users[user_id]), 200)
                    /\ UNCHANGED users
              [] method = "PUT" ->
                    IF is_valid(data)
                    THEN /\ users' = instance_save(users, pk_of(data, user_id),
                                                   validated_data(data))
                         /\ resp' = Response(to_representation(pk_of(data, user_id),
                                                   validated_data(data)), 200)
                    ELSE /\ resp' = Response(errors(data), 400)
                         /\ UNCHANGED users
              [] method = "DELETE" ->
                    /\ users' = instance_delete(users, user_id)
                    /\ resp' = Response(None, 204)

user_detail_GET == \E id \in 1..MaxId : user_detail("GET", id, NoBody)
user_detail_PUT == \E id \in 1..MaxId, data \in Bodies : user_detail("PUT", id, data)
user_detail_DELETE == \E id \in 1..MaxId : user_detail("DELETE", id, NoBody)
create_user_POST == \E data \in Bodies : create_user(data)

\* the workers of the server
Workers == {"w1", "w2"}
Idle == [pc |-> "idle", method |-> "-", user_id |-> 0, data |-> NoBody,
         user |-> None, resp |-> None]

Init ==
    /\ users = << >>
    /\ seq = 1
    /\ req = None
    /\ resp = None
    /\ pre = << >>
    /\ prior = NoExchange
    /\ inflight = [w \in Workers |-> Idle]

\* one request at a time, each handled from start to end
Next ==
    \/ get_users /\ UNCHANGED inflight
    \/ create_user_POST /\ UNCHANGED inflight
    \/ user_detail_GET /\ UNCHANGED inflight
    \/ user_detail_PUT /\ UNCHANGED inflight
    \/ user_detail_DELETE /\ UNCHANGED inflight

Spec == Init /\ [][Next]_vars

(***************************************************************************)
(* What the last exchange was.                                             *)
(***************************************************************************)
IsCreate == req # None /\ req.view = "create_user"
IsList == req # None /\ req.view = "get_users"
IsDetail(method) == req # None /\ req.view = "user_detail" /\ req.method = method
AfterCreate == prior.req # None /\ prior.req.view = "create_user"
AfterDelete == prior.req # None /\ prior.req.view = "user_detail"
Count(table) == Cardinality(DOMAIN table)

\* C1: a POST users/create with a valid body answers 201 with the record
\* {id, name, age} it stored, and the table gains exactly that one record:
\* one row more, under a key no row had, every earlier row as it was.
C1_CreateAddsOneRecord ==
    (IsCreate /\ is_valid(req.data)) =>
        /\ resp.status = 201
        /\ DOMAIN resp.data = {"id", "name", "age"}
        /\ resp.data.id.t = "int"
        /\ resp.data.id.v \notin DOMAIN pre
        /\ DOMAIN users = DOMAIN pre \cup {resp.data.id.v}
        /\ Count(users) = Count(pre) + 1
        /\ \A k \in DOMAIN pre : users[k] = pre[k]
        /\ resp.data.name = JStr(users[resp.data.id.v].name)
        /\ resp.data.age = JInt(users[resp.data.id.v].age)

\* a valid POST arrived at a table that already held a record
C1_Witness ==
    /\ IsCreate /\ is_valid(req.data) /\ resp.status = 201
    /\ Count(pre) > 0

\* C2: a GET users/<id>/ that directly follows the POST users/create which
\* returned that id answers 200 with the same {id, name, age} as the POST.
C2_GetAfterCreate ==
    (IsDetail("GET") /\ AfterCreate) =>
        /\ resp.status = 200
        /\ resp.data = prior.resp.data

\* the POST carried a name inside spaces
C2_Witness ==
    /\ IsDetail("GET") /\ AfterCreate
    /\ prior.req.data.name = JStr(Str(1, "a", 1))
    /\ resp.data.name = JStr(Plain("a"))

\* C3: GET, PUT and DELETE users/<id>/ on an id with no record answer 404
\* and leave the table as it was, whatever the body of the request.
C3_AbsentIdIs404 ==
    (req # None /\ req.view = "user_detail" /\ req.user_id \notin DOMAIN pre) =>
        /\ resp.status = 404
        /\ resp.data = None
        /\ users = pre

\* a PUT with an invalid body on an id with no record
C3_Witness ==
    /\ IsDetail("PUT") /\ req.user_id \notin DOMAIN pre
    /\ ~is_valid(req.data)
    /\ resp.status = 404
    /\ Count(pre) > 0

(***************************************************************************)
(* What a body says, read off the JSON itself.                             *)
(***************************************************************************)
\* the value is an integer: a JSON integer, a float without a fraction, or
\* a string whose text is the decimal form of an integer
DenotesInteger(d) ==
    \/ d.t = "int"
    \/ d.t = "float" /\ d.v[2] = 0
    \/ d.t = "str" /\ \E n \in Ints : d.v.text = ToString(n)
IntOf(d) ==
    CASE d.t = "int" -> d.v
      [] d.t = "float" -> d.v[1]
      [] OTHER -> CHOOSE n \in Ints : d.v.text = ToString(n)
EmptyName(data) == data.name = JStr(Plain(""))
NonIntegerAge(data) == data.age # Absent /\ ~DenotesInteger(data.age)
FieldMissing(data) == data.name = Absent \/ data.age = Absent
\* the name as sent has more than max_length characters
NameOverMax(data) == data.name.t = "str" /\ len(data.name.v) > max_length
\* the name has more than max_length characters without the whitespace around it
StrippedNameOverMax(data) ==
    data.name.t = "str" /\ Len(data.name.v.text) > max_length

\* C4: a POST users/create whose name is empty or whose age is not an
\* integer (a word, a fraction, a boolean, null) answers 400 and leaves the
\* table, its count and every row, as it was.
C4_InvalidCreateIs400 ==
    (IsCreate /\ (EmptyName(req.data) \/ NonIntegerAge(req.data))) =>
        /\ resp.status = 400
        /\ users = pre
        /\ Count(users) = Count(pre)

\* a POST with a good name and the age 1.5, at a table holding a record
C4_Witness ==
    /\ IsCreate /\ req.data.name = JStr(Plain("a"))
    /\ req.data.age.t = "float" /\ req.data.age.v[2] # 0
    /\ resp.status = 400 /\ Count(pre) > 0

\* C5 as stated: a valid PUT on an existing id answers 200 and leaves in that
\* record the name and the age exactly as the body has them, every other
\* record, the ids and the count unchanged.
C5_AsStated ==
    (IsDetail("PUT") /\ req.user_id \in DOMAIN pre /\ is_valid(req.data)) =>
        /\ resp.status = 200
        /\ JStr(users[req.user_id].name) = req.data.name
        /\ users[req.user_id].age = IntOf(req.data.age)
        /\ DOMAIN users = DOMAIN pre
        /\ \A k \in DOMAIN pre \ {req.user_id} : users[k] = pre[k]

\* C5, amended: a valid PUT on an existing id answers 200 with the updated
\* record and leaves in that record the body's name without the whitespace
\* around it and the body's age as an integer; every other record, the set
\* of ids and the count are unchanged.
C5_UpdateExactlyOne ==
    (IsDetail("PUT") /\ req.user_id \in DOMAIN pre /\ is_valid(req.data)) =>
        /\ resp.status = 200
        /\ users[req.user_id].name = strip(req.data.name.v)
        /\ users[req.user_id].age = IntOf(req.data.age)
        /\ resp.data = [id |-> JInt(req.user_id),
                        name |-> JStr(users[req.user_id].name),
                        age |-> JInt(users[req.user_id].age)]
        /\ DOMAIN users = DOMAIN pre
        /\ Count(users) = Count(pre)
        /\ \A k \in DOMAIN pre \ {req.user_id} : users[k] = pre[k]

\* a PUT changed one of two records, its name sent inside spaces
C5_Witness ==
    /\ IsDetail("PUT") /\ resp.status = 200
    /\ Count(pre) = 2
    /\ req.data.name = JStr(Str(1, "a", 1))
    /\ users[req.user_id] # pre[req.user_id]

\* C6 as stated: a PUT on an existing id whose body has an empty name, a name
\* of more than 100 characters, a non-integer age or a missing field answers
\* 400 and changes nothing.
C6_AsStated ==
    (/\ IsDetail("PUT") /\ req.user_id \in DOMAIN pre
     /\ \/ EmptyName(req.data) \/ NameOverMax(req.data)
        \/ NonIntegerAge(req.data) \/ FieldMissing(req.data)) =>
        /\ resp.status = 400
        /\ users = pre

\* C6, amended: a PUT on an existing id whose body has an empty name, a name
\* of more than 100 characters not counting the whitespace around it, a
\* non-integer age or a missing field answers 400 and changes nothing.
C6_InvalidUpdateIs400 ==
    (/\ IsDetail("PUT") /\ req.user_id \in DOMAIN pre
     /\ \/ EmptyName(req.data) \/ StrippedNameOverMax(req.data)
        \/ NonIntegerAge(req.data) \/ FieldMissing(req.data)) =>
        /\ resp.status = 400
        /\ users = pre

\* a PUT with a name of 101 letters on an existing record
C6_Witness ==
    /\ IsDetail("PUT") /\ req.user_id \in DOMAIN pre
    /\ StrippedNameOverMax(req.data)
    /\ resp.status = 400

\* C7: a DELETE on an existing id answers 204 and removes that record and no
\* other; a DELETE on the same id directly after it answers 404 and changes
\* nothing.
C7_DeleteThenGone ==
    /\ (IsDetail("DELETE") /\ req.user_id \in DOMAIN pre) =>
            /\ resp.status = 204
            /\ DOMAIN users = DOMAIN pre \ {req.user_id}
            /\ Count(users) = Count(pre) - 1
            /\ \A k \in DOMAIN users : users[k] = pre[k]
    /\ (IsDetail("DELETE") /\ AfterDelete) =>
            /\ resp.status = 404
            /\ users = pre

\* the second DELETE on an id, another record still in the table
C7_Witness ==
    /\ IsDetail("DELETE") /\ AfterDelete
    /\ prior.resp.status = 204 /\ resp.status = 404
    /\ Count(users) = 1

\* C8: GET users/ answers 200 with exactly one {id, name, age} object per
\* record of the table (none for an empty table), and neither it nor GET
\* users/<id>/ changes the table.
C8_ListIsTheTable ==
    /\ IsList =>
            /\ resp.status = 200
            /\ Len(resp.data) = Count(users)
            /\ \A k \in DOMAIN users :
                   Cardinality({i \in DOMAIN resp.data :
                       resp.data[i] = [id |-> JInt(k), name |-> JStr(users[k].name),
                                       age |-> JInt(users[k].age)]}) = 1
            /\ users = pre
    /\ IsDetail("GET") => users = pre

\* a list of one record after two were created and one deleted
C8_Witness ==
    /\ IsList /\ Len(resp.data) = 1 /\ seq = MaxId + 1
    /\ resp.data[1].id \in {JInt(k) : k \in DOMAIN users}

\* C9: every row of the table has a key below the auto-increment counter (so
\* no two rows share an id), a name of 1 to 100 characters and an integer age.
C9_RowsAreValid ==
    \A k \in DOMAIN users :
        /\ k \in 1..(seq - 1)
        /\ DOMAIN users[k] = {"name", "age"}
        /\ len(users[k].name) \in 1..max_length
        /\ users[k].age \in Int

\* rows survive rejected writes: a PUT answered 400 on a table of two records
C9_Witness ==
    /\ IsDetail("PUT") /\ resp.status = 400
    /\ Count(users) = 2
    /\ \E k \in DOMAIN users : len(users[k].name) = max_length

\* C10: the key of a created record is the one the table's counter gives,
\* whatever id the body carries, and a PUT writes the record under the id of
\* its path, whatever id the body carries: no other key appears or goes, and
\* the rows under the other keys stay as they were.
C10_IdIsTheServers ==
    /\ (IsCreate /\ resp.status = 201) =>
            /\ resp.data.id = JInt(seq - 1)
            /\ (seq - 1) \notin DOMAIN pre
            /\ DOMAIN users = DOMAIN pre \cup {seq - 1}
    /\ (IsDetail("PUT") /\ resp.status = 200) =>
            /\ resp.data.id = JInt(req.user_id)
            /\ DOMAIN users = DOMAIN pre
            /\ \A k \in DOMAIN pre \ {req.user_id} : users[k] = pre[k]

\* a PUT whose body carries the id of another record of the table
C10_Witness ==
    /\ IsDetail("PUT") /\ resp.status = 200
    /\ req.data.id.t = "int" /\ req.data.id.v # req.user_id
    /\ req.data.id.v \in DOMAIN pre
    /\ users[req.user_id] # pre[req.user_id]

\* a POST whose body carries an id other than the one the record got
C10_WitnessCreate ==
    /\ IsCreate /\ resp.status = 201
    /\ req.data.id.t = "int" /\ req.data.id # resp.data.id

(***************************************************************************)
(* Which fields of a body are invalid, read off the JSON itself.           *)
(***************************************************************************)
\* no name, null, a name that is empty without the whitespace around it, or
\* one longer than max_length without it
NameInvalid(data) ==
    \/ data.name.t # "str"
    \/ Len(data.name.v.text) = 0
    \/ Len(data.name.v.text) > max_length
\* no age, or one that is not an integer
AgeInvalid(data) == ~DenotesInteger(data.age)
InvalidFields(data) ==
    {f \in {"name", "age"} :
        IF f = "name" THEN NameInvalid(data) ELSE AgeInvalid(data)}
\* the last request went through validation: a POST, or a PUT on a record
Validated ==
    \/ IsCreate
    \/ IsDetail("PUT") /\ req.user_id \in DOMAIN pre

\* C13: a POST or PUT answers 400 exactly when a field of the body is
\* invalid, and the 400 body then has the invalid fields, all of them and no
\* other, as its keys.
C13_ErrorKeysAreInvalidFields ==
    Validated =>
        /\ (resp.status = 400) = (InvalidFields(req.data) # {})
        /\ resp.status = 400 => DOMAIN resp.data = InvalidFields(req.data)

\* a PUT with both fields invalid, answered with both keys
C13_Witness ==
    /\ IsDetail("PUT") /\ req.user_id \in DOMAIN pre
    /\ resp.status = 400
    /\ NameInvalid(req.data) /\ AgeInvalid(req.data)
    /\ DOMAIN resp.data = {"name", "age"}

\* a POST with only the age invalid, answered with that key alone
C13_WitnessOneKey ==
    /\ IsCreate /\ resp.status = 400
    /\ ~NameInvalid(req.data) /\ DOMAIN resp.data = {"age"}

\* the body has a name of 1 to max_length characters as sent, and a valid age
NameWithinMaxAsSent(data) ==
    /\ data.name.t = "str" /\ len(data.name.v) \in 1..max_length
    /\ ~AgeInvalid(data)
\* the same, counting the name without the whitespace around it
NameWithinMaxStripped(data) ==
    /\ data.name.t = "str" /\ Len(data.name.v.text) \in 1..max_length
    /\ ~AgeInvalid(data)
\* the record the last request wrote: the created one, or the one of the path
Written == IF IsCreate THEN seq - 1 ELSE req.user_id

\* C14 as stated: for POST and PUT, a name of 1 to 100 characters with a
\* valid age is accepted and stored as sent, and a name of 101 or more
\* characters is answered 400 with no write.
C14_AsStated ==
    Validated =>
        /\ NameWithinMaxAsSent(req.data) =>
                /\ resp.status \in {200, 201}
                /\ JStr(users[Written].name) = req.data.name
        /\ NameOverMax(req.data) =>
                /\ resp.status = 400
                /\ users = pre

\* C14, amended: for POST and PUT, counting the name without the whitespace
\* around it, a name of 1 to 100 characters with a valid age is accepted and
\* stored without that whitespace, and a name of 101 or more characters is
\* answered 400 with no write.
C14_BoundIsMaxLength ==
    Validated =>
        /\ NameWithinMaxStripped(req.data) =>
                /\ resp.status \in {200, 201}
                /\ users[Written].name = strip(req.data.name.v)
                /\ resp.data.name = JStr(strip(req.data.name.v))
        /\ StrippedNameOverMax(req.data) =>
                /\ resp.status = 400
                /\ users = pre

\* a POST stored a name of exactly max_length letters
C14_Witness ==
    /\ IsCreate /\ resp.status = 201
    /\ len(req.data.name.v) = max_length
    /\ len(users[Written].name) = max_length

\* a PUT with max_length + 1 letters was refused
C14_WitnessOver ==
    /\ IsDetail("PUT") /\ req.user_id \in DOMAIN pre
    /\ Len(req.data.name.v.text) = max_length + 1
    /\ resp.status = 400

(***************************************************************************)
(* Requests handled side by side.  user_detail reads the record in one     *)
(* statement (User.objects.get) and writes in a later one (serializer.save *)
(* or user.delete); nothing holds the record between the two, so the       *)
(* statements of two workers interleave.                                   *)
(***************************************************************************)
\* the rows the workers start from: one created per key, as POST stores it
Seeded == [k \in 1..MaxId |-> User(Plain("a"), 0)]

\* the bodies of the PUTs: two that differ in name and in age, one with its
\* name inside spaces, one invalid
PutBodies ==
    { Body(Absent, JStr(Plain("a")), JInt(MaxAge)),
      Body(Absent, JStr(Plain(Rep("a", max_length))), JInt(0)),
      Body(Absent, JStr(Str(1, "a", 1)), JInt(0)),
      Body(Absent, JStr(Plain("")), JInt(0)) }

\* a save that writes only the fields it changed on the instance it loaded
serializer_update_dirty(table, pk, user, validated) ==
    IF pk \in DOMAIN table
    THEN [table EXCEPT
            ![pk].name = IF validated.name # user.name THEN validated.name ELSE @,
            ![pk].age = IF validated.age # user.age THEN validated.age ELSE @]
    ELSE instance_save(table, pk, validated)

\* serializer.save() of a serializer built on a loaded instance: every
\* validated field is set on the instance, then instance.save() writes every
\* field of the row with the instance's key, inserting it if it is gone
serializer_update(table, pk, user, validated) ==
    instance_save(table, pk,
                  [user EXCEPT !.name = validated.name, !.age = validated.age])

\* a request reaches a worker
receive(w) ==
    /\ inflight[w].pc = "idle"
    /\ \E id \in 1..MaxId :
         \/ \E method \in {"GET", "DELETE"} :
              inflight' = [inflight EXCEPT ![w] =
                  [Idle EXCEPT !.pc = "lookup", !.method = method, !.user_id = id]]
         \/ \E data \in PutBodies :
              inflight' = [inflight EXCEPT ![w] =
                  [Idle EXCEPT !.pc = "lookup", !.method = "PUT", !.user_id = id,
                               !.data = data]]
    /\ UNCHANGED <<users, seq, req, resp, pre, prior>>

\* user = User.objects.get(id=user_id), or 404
lookup(w) ==
    /\ inflight[w].pc = "lookup"
    /\ inflight' = [inflight EXCEPT ![w] =
          IF inflight[w].user_id \in DOMAIN users
          THEN [@ EXCEPT !.pc = "found", !.user = users[inflight[w].user_id]]
          ELSE [@ EXCEPT !.pc = "done", !.resp = Response(None, 404)]]
    /\ UNCHANGED <<users, seq, req, resp, pre, prior>>

\* the GET branch: the loaded instance, rendered
detail_get(w) ==
    /\ inflight[w].pc = "found" /\ inflight[w].method = "GET"
    /\ inflight' = [inflight EXCEPT ![w] =
          [@ EXCEPT !.pc = "done",
                    !.resp = Response(to_representation(inflight[w].user_id,
                                                        inflight[w].user), 200)]]
    /\ UNCHANGED <<users, seq, req, resp, pre, prior>>

\* the PUT branch: validate, then save the loaded instance
detail_put(w) ==
    LET r == inflight[w]
        pk == pk_of(r.data, r.user_id)
    IN /\ r.pc = "found" /\ r.method = "PUT"
       /\ IF is_valid(r.data)
          THEN /\ users' = serializer_update(users, pk, r.user, validated_data(r.data))
               /\ inflight' = [inflight EXCEPT ![w] =
                     [@ EXCEPT !.pc = "done",
                               !.resp = Response(to_representation(pk,
                                                    validated_data(r.data)), 200)]]
          ELSE /\ inflight' = [inflight EXCEPT ![w] =
                     [@ EXCEPT !.pc = "done", !.resp = Response(errors(r.data), 400)]]
               /\ UNCHANGED users
       /\ UNCHANGED <<seq, req, resp, pre, prior>>

\* the DELETE branch: delete the row of the loaded instance, if it is there
detail_delete(w) ==
    /\ inflight[w].pc = "found" /\ inflight[w].method = "DELETE"
    /\ users' = instance_delete(users, inflight[w].user_id)
    /\ inflight' = [inflight EXCEPT ![w] =
          [@ EXCEPT !.pc = "done", !.resp = Response(None, 204)]]
    /\ UNCHANGED <<seq, req, resp, pre, prior>>

InitConcurrent ==
    /\ users = Seeded
    /\ seq = MaxId + 1
    /\ req = None
    /\ resp = None
    /\ pre = Seeded
    /\ prior = NoExchange
    /\ inflight = [w \in Workers |-> Idle]

NextConcurrent ==
    \E w \in Workers :
        \/ receive(w)
        \/ lookup(w)
        \/ detail_get(w)
        \/ detail_put(w)
        \/ detail_delete(w)

SpecConcurrent == InitConcurrent /\ [][NextConcurrent]_vars

\* worker w has answered a request of this method on this id with this status
Answered(w, method, id, status) ==
    /\ inflight[w].pc = "done"
    /\ inflight[w].method = method
    /\ inflight[w].user_id = id
    /\ inflight[w].resp.status = status
\* the row a body stores (C5): its name without the whitespace around it, its
\* age as an integer
StoredAs(data) == User(strip(data.name.v), IntOf(data.age))

\* C11: when two valid PUTs on the same existing id have both been answered,
\* in whatever order their lookups and saves ran, the record holds the name
\* and the age that one of the two bodies stores, both from the same body,
\* and every other record is as it was.
C11_OneWholeBodyWins ==
    \A v, w \in Workers : \A id \in 1..MaxId :
        (v # w /\ Answered(v, "PUT", id, 200) /\ Answered(w, "PUT", id, 200)) =>
            /\ id \in DOMAIN users
            /\ users[id] \in {StoredAs(inflight[v].data), StoredAs(inflight[w].data)}
            /\ \A k \in DOMAIN Seeded \ {id} :
                   k \in DOMAIN users /\ users[k] = Seeded[k]

\* two PUTs on one id whose bodies differ in name and in age, both of which
\* loaded the record before either saved (each answers with its own body)
C11_Witness ==
    \E v, w \in Workers : \E id \in 1..MaxId :
        /\ v # w
        /\ Answered(v, "PUT", id, 200) /\ Answered(w, "PUT", id, 200)
        /\ StoredAs(inflight[v].data).name # StoredAs(inflight[w].data).name
        /\ StoredAs(inflight[v].data).age # StoredAs(inflight[w].data).age
        /\ inflight[v].user = Seeded[id] /\ inflight[w].user = Seeded[id]
        /\ users[id] = StoredAs(inflight[w].data)

\* C12: once a DELETE on an id has been answered 204, the table has no
\* record with that id: no PUT, whenever it looked the record up, adds one.
C12_DeletedStaysDeleted ==
    \A w \in Workers : \A id \in 1..MaxId :
        Answered(w, "DELETE", id, 204) => id \notin DOMAIN users

\* C15: of the DELETEs on one id, at most one is answered 204; when two have
\* been answered, one got 204 and the other 404, and one record is gone.
C15_OneDeleteIs204 ==
    \A v, w \in Workers : \A id \in 1..MaxId :
        (/\ v # w
         /\ inflight[v].pc = "done" /\ inflight[v].method = "DELETE"
         /\ inflight[v].user_id = id
         /\ Answered(w, "DELETE", id, 204)) =>
            /\ inflight[v].resp.status = 404
            /\ DOMAIN users = DOMAIN Seeded \ {id}

(***************************************************************************)
(* The create_sample_users management command.                             *)
(***************************************************************************)
sample_users ==
    << [name |-> "Alice Johnson", age |-> 28],
       [name |-> "Bob Smith", age |-> 35],
       [name |-> "Charlie Brown", age |-> 22],
       [name |-> "Diana Prince", age |-> 30],
       [name |-> "Edward Wilson", age |-> 45],
       [name |-> "Fiona Davis", age |-> 26],
       [name |-> "George Miller", age |-> 33],
       [name |-> "Hannah Taylor", age |-> 29],
       [name |-> "Ian Anderson", age |-> 41],
       [name |-> "Julia Roberts", age |-> 37] >>

\* a check that never finds the name
name_exists_never(table, name) == FALSE

\* User.objects.filter(name=...).exists()
name_exists(table, name) == \E k \in DOMAIN table : table[k].name = Plain(name)

\* one pass of a loop body: create the user unless the name is taken
create_unless_exists(st, name, age) ==
    IF name_exists(st.users, name)
    THEN st
    ELSE [users |-> objects_create(st.users, next_pk(st.users, st.seq),
                                   User(Plain(name), age)),
          seq |-> st.seq + 1,
          created |-> st.created + 1]

\* for i in range(min(count, len(sample_users))), from i on, up to n
RECURSIVE listed_loop(_, _, _)
listed_loop(st, i, n) ==
    IF i >= n THEN st
    ELSE listed_loop(create_unless_exists(st, sample_users[i + 1].name,
                                          sample_users[i + 1].age), i + 1, n)

\* for i in range(len(sample_users), count), from i on, up to n
RECURSIVE generated_loop(_, _, _)
generated_loop(st, i, n) ==
    IF i >= n THEN st
    ELSE generated_loop(create_unless_exists(st, "Sample User " \o ToString(i + 1),
                                             20 + (i % 30)), i + 1, n)

\* Command.handle: the table, the key counter and created_count at its end
handle(table, counter, count, clear) ==
    LET start == [users |-> IF clear THEN << >> ELSE table,
                  seq |-> counter, created |-> 0]
        listed == listed_loop(start, 0,
                      IF count < Len(sample_users) THEN count ELSE Len(sample_users))
    IN IF count > Len(sample_users)
       THEN generated_loop(listed, Len(sample_users), count)
       ELSE listed

\* the values of --count tried: none or few, and around the end of the list
Counts == (-1)..2 \cup (Len(sample_users) - 1)..(Len(sample_users) + MaxExtra)

\* the run before the last one, kept when it was the command with this count
RunBefore(count) ==
    IF req # None /\ req.view = "create_sample_users" /\ req.data.count = count
    THEN [req |-> req, resp |-> resp]
    ELSE NoExchange

\* python manage.py create_sample_users [--count N] [--clear]
create_sample_users ==
    \E count \in Counts, clear \in BOOLEAN :
        LET end == handle(users, seq, count, clear)
        IN /\ seq <= MaxSeq
           /\ req' = Request("create_sample_users", "manage.py", 0,
                             [count |-> count, clear |-> clear])
           /\ resp' = Response(end.created, 0)
           /\ pre' = users
           /\ prior' = RunBefore(count)
           /\ users' = end.users
           /\ seq' = end.seq
           /\ UNCHANGED inflight

\* the tables the command is first run on: an empty one, and ones holding a
\* user created through the API, whose name is or is not a sample name
InitCommand ==
    /\ users \in { << >>, << User(Plain("Bob Smith"), 0) >>, << User(Plain("a"), 0) >> }
    /\ seq = Len(users) + 1
    /\ req = None
    /\ resp = None
    /\ pre = users
    /\ prior = NoExchange
    /\ inflight = [w \in Workers |-> Idle]

NextCommand ==
    \/ create_sample_users
    \/ user_detail_DELETE /\ UNCHANGED inflight

SpecCommand == InitCommand /\ [][NextCommand]_vars

IsCommand == req # None /\ req.view = "create_sample_users"
AfterSameRun == prior.req # None /\ prior.req.view = "create_sample_users"
Names(table) == {table[k].name : k \in DOMAIN table}

\* C16: without --clear the command creates a user only under a name no user
\* had, and leaves the users there were; run again with the same --count on
\* the table it left, it creates none and leaves the table as it is.  With
\* --clear the table holds max(count, 0) users afterwards, all of different
\* names and none of them one that was there.
C16_CommandIdempotent ==
    IsCommand =>
        /\ ~req.data.clear =>
                /\ \A k \in DOMAIN pre : k \in DOMAIN users /\ users[k] = pre[k]
                /\ \A k \in DOMAIN users \ DOMAIN pre : users[k].name \notin Names(pre)
                /\ resp.data = Count(users) - Count(pre)
        /\ (~req.data.clear /\ AfterSameRun) =>
                /\ users = pre
                /\ resp.data = 0
        /\ req.data.clear =>
                /\ Count(users) = (IF req.data.count > 0 THEN req.data.count ELSE 0)
                /\ Cardinality(Names(users)) = Count(users)
                /\ DOMAIN users \cap DOMAIN pre = {}
                /\ resp.data = Count(users)

\* a second run without --clear and with the same count, past the end of the
\* list, on a table the first run had added users to
C16_Witness ==
    /\ IsCommand /\ ~req.data.clear /\ AfterSameRun
    /\ prior.resp.data > 0
    /\ req.data.count > Len(sample_users)
    /\ Count(users) >= req.data.count

\* a run with --clear on a table that held users, asked for a negative count
C16_WitnessClear ==
    /\ IsCommand /\ req.data.clear /\ req.data.count < 0
    /\ Count(pre) > 0 /\ Count(users) = 0

====
